---- MODULE Spec2Model ----
\* A model of src/isomorphicGit.ts (class IsomorphicGit): the status
\* classifier (status, getFileStatusResult, the `indexes` table), the tree
\* diff (diff, getChangedFiles, canPush, push) and the operations that
\* capture the current commit around a mutation (commitAll, pull).
\*
\* The isomorphic-git library is the object/tree provider.  Its calls are
\* modelled by what their documentation fixes:
\*   git.statusMatrix  one row [filepath, HEAD, WORKDIR, STAGE] per path known
\*                     to the commit, the working tree or the index, each
\*                     digit being the first position of the value in
\*                     [undefined, headOid, workdirOid, stageOid];
\*   git.walk          a lockstep walk of the trees: map is called on every
\*                     path of the union, children of a path are walked unless
\*                     map returns null, results are flattened in walk order
\*                     and undefined results are dropped;
\*   git.add/remove    index entry := working-tree content / deleted;
\*   git.commit        new commit whose tree is the index.
EXTENDS Integers, Sequences, FiniteSets, TLC

VARIABLES
    head,         \* content identity of every file in the last commit
    workdir,      \* content identity of every file in the working tree
    stage,        \* content identity of every file in the staging index
    hasCommit,    \* whether the current branch has a commit
    treeA,        \* tree of the current branch    (branchInfo.current)
    treeB,        \* tree of the tracking ref      (branchInfo.tracking)
    row,          \* the status row handed to getFileStatusResult
    pluginState,  \* plugin.setState(...)
    lastUpdate,   \* which operation last set plugin.lastUpdate
    op,           \* the operation that ran last
    err,          \* "none", or the error the operation threw
    commitBefore, \* << >> (undefined) or <<commit>>: what the operation captured
    matrix,       \* the rows of the operation's status scan
    retChanged,   \* status(): changed
    retStaged,    \* status(): staged
    retCount,     \* << >> (undefined) or <<n>>: a returned number of changed files
    retDiff,      \* the DiffResult[] of the traversal
    retCanPush,   \* canPush()
    retFile       \* getFileStatusResult(): << >> or <<FileStatusResult>>

vars == <<head, workdir, stage, hasCommit, treeA, treeB, row, pluginState,
          lastUpdate, op, err, commitBefore, matrix, retChanged, retStaged,
          retCount, retDiff, retCanPush, retFile>>

repoVars == <<head, workdir, stage, hasCommit>>
refVars == <<treeA, treeB>>
retVars == <<commitBefore, matrix, retChanged, retStaged, retCount, retDiff,
             retCanPush, retFile>>

-----------------------------------------------------------------------------
\* Bounds and values

\* number of distinct content identities (h1 .. hN)
NumOids == 3

\* `undefined`: no entry / no content identity at this point
Absent == 0

\* an entry whose type() is 'tree'
TreeMark == -1

\* the JavaScript value undefined where a string is expected
UNDEFINED == "<undefined>"

FILE == 0
HEAD == 1
WORKDIR == 2
STAGE == 3

indexes_Missing ==
    ("000" :> "") @@ ("003" :> "AD") @@ ("022" :> "A") @@
    ("023" :> "AM") @@ ("100" :> "D ") @@ ("101" :> " D") @@
    ("103" :> "MD") @@ ("110" :> "D ??") @@ ("111" :> "") @@
    ("120" :> "D ??") @@ ("121" :> " M") @@ ("122" :> "M ") @@
    ("123" :> "MM")

indexes ==
    ("000" :> "") @@ ("003" :> "AD") @@ ("020" :> "??") @@ ("022" :> "A") @@
    ("023" :> "AM") @@ ("100" :> "D ") @@ ("101" :> " D") @@
    ("103" :> "MD") @@ ("110" :> "D ??") @@ ("111" :> "") @@
    ("120" :> "D ??") @@ ("121" :> " M") @@ ("122" :> "M ") @@
    ("123" :> "MM")

\* `${n}` for a single digit
Digit == <<"0", "1", "2", "3">>

-----------------------------------------------------------------------------
\* Paths

\* the paths a tree can hold, as sequences of names
TreePaths ==
    {<<"readme.md">>, <<"notes">>, <<"notes", "a.md">>, <<"notes", "b.md">>}

\* the order in which a walk visits the names of one directory
NameOrder == <<"a.md", "b.md", "notes", "readme.md">>

\* the files of the working tree / index / commit of the status scan
RepoFiles == {<<"notes", "a.md">>, <<"readme.md">>}

\* the order in which the status scan lists them
RepoFileOrder == <<<<"notes", "a.md">>, <<"readme.md">>>>

RECURSIVE JoinPath(_)
JoinPath(p) ==
    IF Len(p) = 1 THEN p[1]
    ELSE JoinPath(SubSeq(p, 1, Len(p) - 1)) \o "/" \o p[Len(p)]

\* the filepath the walk hands to map: '.' for the root
FullPath(p) == IF p = <<>> THEN "." ELSE JoinPath(p)

IsProperPrefix(p, q) == Len(p) < Len(q) /\ SubSeq(q, 1, Len(p)) = p

\* a tree is well formed: a child exists only under a directory, a directory
\* has at least one child, and the deepest paths are leaves
WellFormedTree(t) ==
    /\ t[<<"readme.md">>] # TreeMark
    /\ \A p \in TreePaths :
         Len(p) = 2 =>
           /\ t[p] # TreeMark
           /\ t[p] # Absent => t[SubSeq(p, 1, 1)] = TreeMark
    /\ t[<<"notes">>] = TreeMark =>
         \E p \in TreePaths : Len(p) = 2 /\ t[p] # Absent

Trees == {t \in [TreePaths -> (TreeMark .. NumOids)] : WellFormedTree(t)}

\* the tree of a commit whose files are `files`
TreeOf(files) ==
    [p \in TreePaths |->
        IF p \in DOMAIN files /\ files[p] # Absent THEN files[p]
        ELSE IF \E q \in DOMAIN files : files[q] # Absent /\ IsProperPrefix(p, q)
             THEN TreeMark
             ELSE Absent]

FileMaps == [RepoFiles -> (Absent .. NumOids)]

NoFiles == [p \in RepoFiles |-> Absent]

-----------------------------------------------------------------------------
\* The tree diff (diff, getChangedFiles)

\* the entry of tree t at path p: the root is a directory
Entry(t, p) == IF p = <<>> THEN TreeMark ELSE t[p]

\* the paths directly under each path, in the order a walk visits them
ChildrenOf ==
    [p \in TreePaths \cup {<<>>} |->
        LET names == SelectSeq(NameOrder, LAMBDA n : Append(p, n) \in TreePaths)
        IN  [i \in 1..Len(names) |-> Append(p, names[i])]]

\* the filepath of each path
FilePathOf == [p \in TreePaths \cup {<<>>} |-> FullPath(p)]

\* whether readdir of tree t at path p lists child c: nothing is listed under
\* a leaf or a missing entry
readdir(t, p, c) == Entry(t, p) = TreeMark /\ t[c] # Absent

\* comparing the entries instead of their oids: never equal
diffType_Entries(Aoid, Boid) ==
    LET t1 == "modify"
        t2 == IF Aoid = Absent THEN "remove" ELSE t1
    IN  IF Boid = Absent THEN "add" ELSE t2

\* "determine modification type": the assignments in their order
diffType(Aoid, Boid) ==
    LET t1 == IF Aoid # Boid THEN "modify" ELSE "equal"
        t2 == IF Aoid = Absent THEN "remove" ELSE t1
    IN  IF Boid = Absent THEN "add" ELSE t2

\* dropping the paths that one side lacks
diffMap_BothOnly(filepath, A, B) ==
    IF filepath = "." THEN <<>>
    ELSE IF A = TreeMark \/ B = TreeMark THEN <<>>
    ELSE IF A = Absent \/ B = Absent THEN <<>>
    ELSE <<[path |-> "/" \o filepath, type |-> diffType(A, B)]>>

\* the map callback of diff: << >> is `return;` (undefined)
diffMap(filepath, A, B) ==
    IF filepath = "." THEN <<>>
    ELSE IF A = TreeMark \/ B = TreeMark THEN <<>>
    ELSE <<[path |-> "/" \o filepath, type |-> diffType(A, B)]>>

RECURSIVE walk(_, _, _)
RECURSIVE walkChildren(_, _, _)

\* git.walk with the default reduce and iterate: map on the path, then the
\* union of the children of both sides, results flattened in walk order
walk(A, B, p) ==
    LET parent == diffMap(FilePathOf[p], Entry(A, p), Entry(B, p))
        children == SelectSeq(ChildrenOf[p],
                       LAMBDA c : readdir(A, p, c) \/ readdir(B, p, c))
    IN  parent \o walkChildren(A, B, children)

walkChildren(A, B, children) ==
    IF children = <<>> THEN <<>>
    ELSE walk(A, B, Head(children)) \o walkChildren(A, B, Tail(children))

diff(commitHash1, commitHash2) == walk(commitHash1, commitHash2, <<>>)

\* the length without the filter
changedCount_All(files) == Len(files)

\* .filter(file => file.type !== "equal").length
changedCount(files) == Len(SelectSeq(files, LAMBDA file : file.type # "equal"))

getChangedFiles(commitHash1, commitHash2) ==
    changedCount(diff(commitHash1, commitHash2))

-----------------------------------------------------------------------------
\* The status classifier (status, getFileStatusResult)

\* Array.prototype.indexOf, 0-based
IndexOf(entry, value) ==
    (CHOOSE i \in DOMAIN entry :
        entry[i] = value /\ \A j \in 1..(i - 1) : entry[j] # value) - 1

\* one row of git.statusMatrix: [filepath, HEAD, WORKDIR, STAGE]
matrixRow(p, headOid, workdirOid, stageOid) ==
    LET entry == <<Absent, headOid, workdirOid, stageOid>>
    IN  <<FullPath(p), IndexOf(entry, headOid), IndexOf(entry, workdirOid),
          IndexOf(entry, stageOid)>>

\* git.statusMatrix: a row for every path that the commit, the working tree
\* or the index knows
statusMatrix(h, w, s) ==
    LET known == SelectSeq(RepoFileOrder,
                    LAMBDA p : h[p] # Absent \/ w[p] # Absent \/ s[p] # Absent)
    IN  [i \in 1..Len(known) |-> matrixRow(known[i], h[known[i]], w[known[i]],
                                            s[known[i]])]

rowKey(r) ==
    Digit[r[HEAD + 1] + 1] \o Digit[r[WORKDIR + 1] + 1] \o Digit[r[STAGE + 1] + 1]

getFileStatusResult(r) ==
    LET index == IF rowKey(r) \in DOMAIN indexes
                 THEN indexes[rowKey(r)]
                 ELSE UNDEFINED
    IN  [index |-> index, path |-> r[FILE + 1]]

\* comparing HEAD with STAGE instead of WORKDIR
changedOf_Stage(status) ==
    LET rows == SelectSeq(status, LAMBDA r : r[HEAD + 1] # r[STAGE + 1])
    IN  [i \in 1..Len(rows) |-> getFileStatusResult(rows[i])]

\* status.filter(row => row[HEAD] !== row[WORKDIR]).map(getFileStatusResult)
changedOf(status) ==
    LET rows == SelectSeq(status, LAMBDA r : r[HEAD + 1] # r[WORKDIR + 1])
    IN  [i \in 1..Len(rows) |-> getFileStatusResult(rows[i])]

\* status.filter(row => row[STAGE] === 3 || row[STAGE] === 2).map(row => row[FILE])
stagedOf(status) ==
    LET rows == SelectSeq(status,
                   LAMBDA r : r[STAGE + 1] = 3 \/ r[STAGE + 1] = 2)
    IN  [i \in 1..Len(rows) |-> rows[i][FILE + 1]]

\* the rows a caller may hand to getFileStatusResult, by its parameter type
RowDomain ==
    {<<FullPath(p), h, w, s>> : p \in TreePaths, h \in 0..1, w \in 0..2, s \in 0..3}

-----------------------------------------------------------------------------
\* The current commit and the staging step of commitAll

\* << >> (undefined) when the branch has no commit, else the commit (its files)
getCurrentCommit(has, h) == IF has THEN <<h>> ELSE <<>>

\* staging by the HEAD column instead of the WORKDIR column
stageAll_Head(status, w, s) ==
    [p \in DOMAIN s |->
        IF \E i \in DOMAIN status : status[i][FILE + 1] = FullPath(p)
        THEN LET r == CHOOSE r \in {status[i] : i \in DOMAIN status} :
                        r[FILE + 1] = FullPath(p)
             IN  IF r[HEAD + 1] # 0 THEN w[p] ELSE Absent
        ELSE s[p]]

\* status.map(([filepath, , worktreeStatus]) =>
\*     worktreeStatus ? git.add(filepath) : git.remove(filepath))
stageAll(status, w, s) ==
    [p \in DOMAIN s |->
        IF \E i \in DOMAIN status : status[i][FILE + 1] = FullPath(p)
        THEN LET r == CHOOSE r \in {status[i] : i \in DOMAIN status} :
                        r[FILE + 1] = FullPath(p)
             IN  IF r[WORKDIR + 1] # 0 THEN w[p] ELSE Absent
        ELSE s[p]]

-----------------------------------------------------------------------------
\* Operations on the repository: status, commitAll, pull

EmptyTree == [p \in TreePaths |-> Absent]

NoRow == <<".", 0, 0, 0>>

\* what an operation leaves in the result variables
Returns(cb, m, changed, staged, count, files, can, file) ==
    /\ commitBefore' = cb
    /\ matrix' = m
    /\ retChanged' = changed
    /\ retStaged' = staged
    /\ retCount' = count
    /\ retDiff' = files
    /\ retCanPush' = can
    /\ retFile' = file

Init ==
    /\ head \in FileMaps
    /\ workdir \in FileMaps
    /\ stage \in FileMaps
    /\ hasCommit \in BOOLEAN
    /\ ~hasCommit => head = NoFiles
    /\ treeA = EmptyTree
    /\ treeB = EmptyTree
    /\ row = NoRow
    /\ pluginState = "idle"
    /\ lastUpdate = "never"
    /\ op = "init"
    /\ err = "none"
    /\ commitBefore = <<>>
    /\ matrix = <<>>
    /\ retChanged = <<>>
    /\ retStaged = <<>>
    /\ retCount = <<>>
    /\ retDiff = <<>>
    /\ retCanPush = FALSE
    /\ retFile = <<>>

\* status(): readable says whether git.statusMatrix could read the store
status ==
    \E readable \in BOOLEAN :
        /\ pluginState' = "status"
        /\ op' = "status"
        /\ IF readable
           THEN LET m == statusMatrix(head, workdir, stage)
                IN  /\ err' = "none"
                    /\ Returns(<<>>, m, changedOf(m), stagedOf(m), <<>>, <<>>,
                               FALSE, <<>>)
           ELSE /\ err' = "GitError"
                /\ Returns(<<>>, <<>>, <<>>, <<>>, <<>>, <<>>, FALSE, <<>>)
        /\ UNCHANGED <<repoVars, refVars, row, lastUpdate>>

\* commitAll(): the git calls all succeed ("ok"), the scan fails before
\* anything is staged ("scanFails"), or git.commit fails after the staging
\* ("commitFails")
commitAll ==
    \E outcome \in {"ok", "scanFails", "commitFails"} :
        LET cb == getCurrentCommit(hasCommit, head)
            m == statusMatrix(head, workdir, stage)
            staged == stageAll(m, workdir, stage)
        IN  /\ pluginState' = "commit"
            /\ op' = "commitAll"
            /\ CASE outcome = "ok" ->
                      /\ stage' = staged
                      /\ head' = staged
                      /\ hasCommit' = TRUE
                      /\ lastUpdate' = "commitAll"
                      /\ err' = "none"
                      /\ Returns(cb, m, <<>>, <<>>,
                                 IF cb # <<>>
                                 THEN <<getChangedFiles(TreeOf(cb[1]),
                                                        TreeOf(staged))>>
                                 ELSE <<>>,
                                 <<>>, FALSE, <<>>)
                 [] outcome = "scanFails" ->
                      /\ err' = "GitError"
                      /\ Returns(cb, <<>>, <<>>, <<>>, <<>>, <<>>, FALSE, <<>>)
                      /\ UNCHANGED <<stage, head, hasCommit, lastUpdate>>
                 [] outcome = "commitFails" ->
                      /\ stage' = staged
                      /\ err' = "GitError"
                      /\ Returns(cb, m, <<>>, <<>>, <<>>, <<>>, FALSE, <<>>)
                      /\ UNCHANGED <<head, hasCommit, lastUpdate>>
            /\ UNCHANGED <<workdir, refVars, row>>

\* the commits a pull can bring: the local one with at most one file changed
RemoteCommits(h) ==
    {[h EXCEPT ![p] = oid] : p \in RepoFiles, oid \in Absent..NumOids}

\* pull(): git.pull brings the branch to the remote commit `remote` and checks
\* it out; commitBefore.oid is then read without a guard
pullDone ==
    \E remote \in RemoteCommits(head) :
        LET cb == getCurrentCommit(hasCommit, head)
        IN  /\ pluginState' = "pull"
            /\ op' = "pull"
            /\ head' = remote
            /\ stage' = remote
            /\ workdir' = remote
            /\ hasCommit' = TRUE
            /\ lastUpdate' = "pull"
            /\ IF cb = <<>>
               THEN /\ err' = "TypeError"
                    /\ Returns(cb, <<>>, <<>>, <<>>, <<>>, <<>>, FALSE, <<>>)
               ELSE /\ err' = "none"
                    /\ Returns(cb, <<>>, <<>>, <<>>,
                               <<getChangedFiles(TreeOf(cb[1]), TreeOf(remote))>>,
                               <<>>, FALSE, <<>>)
            /\ UNCHANGED <<refVars, row>>

\* pull(): git.pull throws (no network, rejected credentials, a merge it cannot do)
pullFails ==
    /\ pluginState' = "pull"
    /\ op' = "pull"
    /\ err' = "GitError"
    /\ Returns(getCurrentCommit(hasCommit, head), <<>>, <<>>, <<>>, <<>>, <<>>,
               FALSE, <<>>)
    /\ UNCHANGED <<repoVars, lastUpdate, refVars, row>>

pull == pullDone \/ pullFails

Next == status \/ commitAll \/ pull

Spec == Init /\ [][Next]_vars

-----------------------------------------------------------------------------
\* Operations on two refs: diff, getChangedFiles, canPush, push

InitDiff ==
    /\ treeA \in Trees
    /\ treeB \in Trees
    /\ head = NoFiles
    /\ workdir = NoFiles
    /\ stage = NoFiles
    /\ hasCommit = TRUE
    /\ row = NoRow
    /\ pluginState = "idle"
    /\ lastUpdate = "never"
    /\ op = "init"
    /\ err = "none"
    /\ commitBefore = <<>>
    /\ matrix = <<>>
    /\ retChanged = <<>>
    /\ retStaged = <<>>
    /\ retCount = <<>>
    /\ retDiff = <<>>
    /\ retCanPush = FALSE
    /\ retFile = <<>>

diffRefs ==
    /\ op' = "diff"
    /\ err' = "none"
    /\ Returns(<<>>, <<>>, <<>>, <<>>, <<>>, diff(treeA, treeB), FALSE, <<>>)
    /\ UNCHANGED <<repoVars, refVars, row, pluginState, lastUpdate>>

\* getChangedFiles(current, tracking): retDiff is the traversal it filtered
getChangedFilesRefs ==
    /\ op' = "getChangedFiles"
    /\ err' = "none"
    /\ Returns(<<>>, <<>>, <<>>, <<>>, <<getChangedFiles(treeA, treeB)>>,
               diff(treeA, treeB), FALSE, <<>>)
    /\ UNCHANGED <<repoVars, refVars, row, pluginState, lastUpdate>>

canPush ==
    /\ op' = "canPush"
    /\ err' = "none"
    /\ LET changedFiles == getChangedFiles(treeA, treeB)
       IN  Returns(<<>>, <<>>, <<>>, <<>>, <<changedFiles>>,
                   diff(treeA, treeB), changedFiles # 0, <<>>)
    /\ UNCHANGED <<repoVars, refVars, row, pluginState, lastUpdate>>

\* push(): git.push fails, or moves the tracking ref to the current branch
push ==
    \E pushed \in BOOLEAN :
        /\ pluginState' = "push"
        /\ op' = "push"
        /\ IF pushed
           THEN /\ treeB' = treeA
                /\ lastUpdate' = "push"
                /\ err' = "none"
                /\ Returns(<<>>, <<>>, <<>>, <<>>,
                           <<getChangedFiles(treeA, treeB)>>,
                           diff(treeA, treeB), FALSE, <<>>)
           ELSE /\ err' = "GitError"
                /\ Returns(<<>>, <<>>, <<>>, <<>>, <<>>, diff(treeA, treeB),
                           FALSE, <<>>)
                /\ UNCHANGED <<treeB, lastUpdate>>
        /\ UNCHANGED <<repoVars, treeA, row>>

NextDiff == diffRefs \/ getChangedFilesRefs \/ canPush \/ push

SpecDiff == InitDiff /\ [][NextDiff]_vars

-----------------------------------------------------------------------------
\* getFileStatusResult on every row of its parameter type

InitClassify ==
    /\ row \in RowDomain
    /\ treeA = EmptyTree
    /\ treeB = EmptyTree
    /\ head = NoFiles
    /\ workdir = NoFiles
    /\ stage = NoFiles
    /\ hasCommit = TRUE
    /\ pluginState = "idle"
    /\ lastUpdate = "never"
    /\ op = "init"
    /\ err = "none"
    /\ commitBefore = <<>>
    /\ matrix = <<>>
    /\ retChanged = <<>>
    /\ retStaged = <<>>
    /\ retCount = <<>>
    /\ retDiff = <<>>
    /\ retCanPush = FALSE
    /\ retFile = <<>>

\* the lookup never throws: a key missing from the table yields undefined
classify ==
    /\ op' = "getFileStatusResult"
    /\ err' = "none"
    /\ Returns(<<>>, <<>>, <<>>, <<>>, <<>>, <<>>, FALSE,
               <<getFileStatusResult(row)>>)
    /\ UNCHANGED <<repoVars, refVars, row, pluginState, lastUpdate>>

NextClassify == classify

SpecClassify == InitClassify /\ [][NextClassify]_vars

-----------------------------------------------------------------------------
\* Properties

\* the kind that two content identities determine: both present and equal is
\* Equal, both present and unequal is Modify, only A is Remove, only B is Add
KindOf(a, b) ==
    IF a # Absent /\ b # Absent
    THEN (IF a = b THEN "equal" ELSE "modify")
    ELSE IF a # Absent THEN "remove" ELSE "add"

\* the paths at which some side has an entry and no side has a directory
LeafPaths(A, B) ==
    {p \in TreePaths :
        /\ A[p] # TreeMark
        /\ B[p] # TreeMark
        /\ A[p] # Absent \/ B[p] # Absent}

PathsOf(files) == {files[i].path : i \in DOMAIN files}

NotEqualCount(files) ==
    Cardinality({i \in DOMAIN files : files[i].type # "equal"})

\* C1: every entry that diff(refA, refB) emits for a leaf path has the kind
\* its two content identities determine: equal identities give equal, unequal
\* ones modify, a path only in A gives remove, a path only in B gives add.
C1_KindFollowsIdentities ==
    op = "diff" =>
        \A i \in DOMAIN retDiff : \A p \in TreePaths :
            retDiff[i].path = "/" \o FilePathOf[p] =>
                retDiff[i].type = KindOf(treeA[p], treeB[p])

\* C2: status() returns in `changed` exactly one entry, with the row's path,
\* for every row of the scan whose HEAD digit differs from its WORKDIR digit,
\* and in `staged` exactly the paths of the rows whose STAGE digit is 2 or 3.
C2_ChangedAndStaged ==
    (op = "status" /\ err = "none") =>
        LET changedRows == {i \in DOMAIN matrix : matrix[i][2] # matrix[i][3]}
            stagedRows == {i \in DOMAIN matrix : matrix[i][4] \in {2, 3}}
        IN  /\ Len(retChanged) = Cardinality(changedRows)
            /\ PathsOf(retChanged) = {matrix[i][1] : i \in changedRows}
            /\ Len(retStaged) = Cardinality(stagedRows)
            /\ {retStaged[i] : i \in DOMAIN retStaged}
                 = {matrix[i][1] : i \in stagedRows}

\* C2 witness: a scan with a 020 row and a 101 row, both in changed, neither
\* in staged.
C2_Witness ==
    /\ op = "status"
    /\ err = "none"
    /\ \E i, j \in DOMAIN matrix :
         /\ rowKey(matrix[i]) = "020"
         /\ rowKey(matrix[j]) = "101"
         /\ {matrix[i][1], matrix[j][1]} \subseteq PathsOf(retChanged)
    /\ retStaged = <<>>

\* C3: getFileStatusResult on a row whose key is not in the table fails with
\* UnknownStateError and returns no result.
C3_UnknownKeyFails ==
    (op = "getFileStatusResult" /\ rowKey(row) \notin DOMAIN indexes) =>
        (err = "UnknownStateError" /\ retFile = <<>>)

\* C4: the key of every row that the status scan can return is a key of the
\* table.
C4_ReachableKeysInTable ==
    (op = "status" /\ err = "none") =>
        \A i \in DOMAIN matrix : rowKey(matrix[i]) \in DOMAIN indexes

\* C5: diff emits exactly one entry for every path at which no side is a
\* directory (and some side has an entry), none for the root or a directory,
\* and so every leaf under a directory that only one side has is emitted.
C5_LeavesOnlyAndAll ==
    op = "diff" =>
        /\ PathsOf(retDiff)
             = {"/" \o FilePathOf[p] : p \in LeafPaths(treeA, treeB)}
        /\ Len(retDiff) = Cardinality(LeafPaths(treeA, treeB))

\* C5 witness: `notes` is a leaf in A and a directory in B; nothing is emitted
\* for /notes and the leaf /notes/a.md under it is emitted.
C5_Witness ==
    /\ op = "diff"
    /\ treeA[<<"notes">>] \in 1..NumOids
    /\ treeB[<<"notes">>] = TreeMark
    /\ treeB[<<"notes", "a.md">>] # Absent
    /\ "/notes/a.md" \in PathsOf(retDiff)
    /\ "/notes" \notin PathsOf(retDiff)

\* C6: for the same tree on both sides the traversal yields one equal entry
\* for every leaf of the tree and nothing else, and the count of changed
\* files is 0.
C6_SelfDiffAllEqual ==
    (op = "getChangedFiles" /\ treeA = treeB) =>
        /\ \A i \in DOMAIN retDiff : retDiff[i].type = "equal"
        /\ PathsOf(retDiff)
             = {"/" \o FilePathOf[p] : p \in LeafPaths(treeA, treeA)}
        /\ Len(retDiff) = Cardinality(LeafPaths(treeA, treeA))
        /\ retCount = <<0>>

\* C6 witness: a tree with three leaves compared with itself.
C6_Witness ==
    /\ op = "getChangedFiles"
    /\ treeA = treeB
    /\ Len(retDiff) = 3
    /\ retCount = <<0>>

\* C7: when the branch has no commit yet and the git calls succeed, commitAll
\* and pull complete without an error and without a count taken from a diff
\* against the missing commit.
C7_NoCommitYetCompletes ==
    (op \in {"commitAll", "pull"} /\ commitBefore = <<>> /\ err # "GitError") =>
        (err = "none" /\ retCount = <<>>)

\* C8: the count getChangedFiles returns is the number of entries of the one
\* traversal diff(A, B) whose type is not equal, and canPush is true exactly
\* when that count is not 0.
C8_CountIsFilteredDiff ==
    /\ op \in {"getChangedFiles", "canPush"} =>
         /\ retDiff = diff(treeA, treeB)
         /\ retCount = <<NotEqualCount(retDiff)>>
    /\ op = "canPush" => (retCanPush <=> NotEqualCount(retDiff) # 0)

\* C8 witness: canPush is true for two refs with one equal and two changed
\* leaves.
C8_Witness ==
    /\ op = "canPush"
    /\ retCanPush
    /\ retCount = <<2>>
    /\ Len(retDiff) = 3

\* C9: every entry of `changed` that status() returns carries a code that is
\* defined and not empty.
C9_ChangedHasCode ==
    (op = "status" /\ err = "none") =>
        \A i \in DOMAIN retChanged :
            /\ retChanged[i].index # UNDEFINED
            /\ retChanged[i].index # ""

\* C9 witness: a scan with a row whose key (113) is missing from the table,
\* beside a row that is in changed.
C9_Witness ==
    /\ op = "status"
    /\ err = "none"
    /\ \E i \in DOMAIN matrix : rowKey(matrix[i]) = "113"
    /\ Len(retChanged) = 1

\* C10: right after a commitAll that completed without error, HEAD, index and
\* working tree agree on every path, so status() would return an empty
\* changed and an empty staged.
C10_CleanAfterCommitAll ==
    (op = "commitAll" /\ err = "none") =>
        LET m == statusMatrix(head, workdir, stage)
        IN  /\ head = stage
            /\ stage = workdir
            /\ changedOf(m) = <<>>
            /\ stagedOf(m) = <<>>

\* C10 witness: a commitAll whose scan held a staged-but-reverted row (113)
\* and a staged deletion (100).
C10_Witness ==
    /\ op = "commitAll"
    /\ err = "none"
    /\ \E i, j \in DOMAIN matrix :
         rowKey(matrix[i]) = "113" /\ rowKey(matrix[j]) = "100"

=============================================================================
